---- MODULE Spec2Model ----
(***************************************************************************)
(* Point-of-sale backend (walshy828/dodgeball-sale).                       *)
(*                                                                         *)
(* Order submission and read-back of the relational backend                *)
(* (src/server/mariadb.js, schema in src/server/db.js), order submission   *)
(* of the document backend (src/server/firestore.js), the in-memory        *)
(* admin session store and the credential check (src/server/mariadb.js),   *)
(* the login route with its throttle, requireAdmin and the admin item      *)
(* routes (src/unnamed/part_000), and the catalog validation and writes    *)
(* (src/server/mariadb.js).                                                *)
(*                                                                         *)
(* Strings that the code formats or parses (order IDs) are sequences of    *)
(* one-character strings, so that "0042" is <<"0","0","4","2">> and        *)
(* padStart / toString / parseInt are computed, not assumed.               *)
(***************************************************************************)
EXTENDS Integers, Sequences, FiniteSets, TLC

VARIABLES
    backend,        \* which module the server imports: "mariadb" | "firestore" | "none"
    counter,        \* meta.count of the row id = 'counter' (committed value)
    orders,         \* committed rows of table orders, in commit order
    transactions,   \* committed rows of table transactions, in commit order
    ordersAutoInc,  \* last AUTO_INCREMENT value handed out by orders.id
    txAutoInc,      \* last AUTO_INCREMENT value handed out by transactions.id
    lockHolder,     \* connection holding the X lock on the counter row, 0 = none
    tx,             \* per connection: the uncommitted writes of its open transaction
    fsCounter,      \* Firestore meta/counter document: -1 = does not exist, else its count
    fsOrders,       \* Firestore collection "orders" (documents)
    fsTransactions, \* Firestore collection "transactions" (documents)
    pc,             \* per request: the await it is suspended at
    local,          \* per request: the local variables of submitOrder
    calls,          \* history: one record per submitOrder call, in call order
    c0,             \* history: the counter value before the first call
    fmt,            \* the order-ID formatting applied to two counter values
    now,            \* Date.now(), in ms
    adminTokens,    \* the Map adminTokens: token -> expiry timestamp (ms)
    issued,         \* history: every token createAdminToken has returned
    lastUse,        \* history: per token, when it was issued or last accepted (-1: none)
    purged,         \* history: tokens a rejected validation has removed
    revoked,        \* history: tokens revoked and not issued since
    lastCall,       \* the last session-store call and what it returned
    metaText,       \* table meta_text: the stored admin credential
    gres,           \* the last validateAdminPassword call on its own and its result
    loginAttempts,  \* the Map loginAttempts: client -> reference to its record object
    heap,           \* the record objects: reference -> {count, firstAt, lockedUntil}
    lpc,            \* per login request: "idle", or "verify" while it awaits the guard
    lreq,           \* per login request: the handler's ip, now, record and password
    cleared,        \* history: clients whose last finished verification succeeded
    lastLogin,      \* the last response of POST /api/admin/login
    vres,           \* the last validateItemFields call on its own and its result
    allowUnauth,    \* process.env.ALLOW_UNAUTH_ADMIN === 'true'
    itemRows,       \* table items: id -> row
    itemsAutoInc,   \* last AUTO_INCREMENT value handed out by items.id
    areq            \* the admin item request in flight or last answered, and its response

ordervars == <<backend, counter, orders, transactions, ordersAutoInc, txAutoInc,
               lockHolder, tx, fsCounter, fsOrders, fsTransactions, pc, local,
               calls, c0>>

sessionvars == <<now, adminTokens, issued, lastUse, purged, revoked, lastCall>>

loginvars == <<loginAttempts, heap, lpc, lreq, cleared, lastLogin>>

catalogvars == <<allowUnauth, itemRows, itemsAutoInc, areq>>

adminvars == <<metaText, gres, loginvars, vres, catalogvars>>

vars == <<ordervars, fmt, sessionvars, adminvars>>

----------------------------------------------------------------------------
(* Bounds *)

NumProcs == 2          \* concurrent requests
MaxSubmits == 2        \* submitOrder calls per run
NumLogins == 2         \* concurrent login requests
MaxCreates == 1        \* catalog items created per run
MaxLoginClock == 3     \* the login clock runs up to MaxLoginClock * 5 minutes

Procs == 1..NumProcs

----------------------------------------------------------------------------
(* Number.prototype.toString, String.prototype.padStart, and reading an ID  *)
(* back as a number                                                         *)

Digit(d) ==
    CASE d = 0 -> "0" [] d = 1 -> "1" [] d = 2 -> "2" [] d = 3 -> "3"
      [] d = 4 -> "4" [] d = 5 -> "5" [] d = 6 -> "6" [] d = 7 -> "7"
      [] d = 8 -> "8" [] d = 9 -> "9"

RECURSIVE toString(_)
toString(n) ==
    IF n < 10 THEN <<Digit(n)>> ELSE toString(n \div 10) \o <<Digit(n % 10)>>

RECURSIVE padStart(_, _, _)
padStart(s, width, fill) ==
    IF Len(s) >= width THEN s ELSE padStart(<<fill>> \o s, width, fill)

DigitValue(ch) ==
    CASE ch = "0" -> 0 [] ch = "1" -> 1 [] ch = "2" -> 2 [] ch = "3" -> 3
      [] ch = "4" -> 4 [] ch = "5" -> 5 [] ch = "6" -> 6 [] ch = "7" -> 7
      [] ch = "8" -> 8 [] ch = "9" -> 9

RECURSIVE ParseInt(_)
ParseInt(s) ==
    IF s = <<>> THEN 0
    ELSE 10 * ParseInt(SubSeq(s, 1, Len(s) - 1)) + DigitValue(s[Len(s)])

\* mutant: the counter skips a value
NewCount_PlusTwo(current) == current + 2

NewCount(current) == current + 1

\* mutant: the ID keeps four digits only
NewOrderId_Wrapped(newCount) == padStart(toString(newCount % 10000), 4, "0")

NewOrderId(newCount) == padStart(toString(newCount), 4, "0")

----------------------------------------------------------------------------
(* Request bodies *)

PizzaSlice == [name |-> "Pizza Slice", qty |-> 2, price |-> 3]
Water      == [name |-> "Water", qty |-> 1, price |-> 2]
Unnamed    == [name |-> "", qty |-> 1, price |-> 2]

CashOrder      == [items |-> <<PizzaSlice, Water>>, paymentType |-> "Cash", totalAmount |-> 8]
VenmoOrder     == [items |-> <<Water>>, paymentType |-> "Venmo", totalAmount |-> 2]
LowerVenmo     == [items |-> <<Unnamed, Water>>, paymentType |-> "venmo", totalAmount |-> 4]
NoPaymentType  == [items |-> <<>>, totalAmount |-> 0]
NoItems        == [paymentType |-> "Cash", totalAmount |-> 0]

OrderInputs == {CashOrder, VenmoOrder, LowerVenmo, NoPaymentType, NoItems}

Has(obj, field) == field \in DOMAIN obj

\* mutant: the payment type is compared without regard to case
Status_IgnoreCase(orderData) ==
    IF Has(orderData, "paymentType") /\ orderData.paymentType \in {"Venmo", "venmo"}
    THEN "pending" ELSE "paid"

\* orderData.paymentType === "Venmo" ? "pending" : "paid"
Status(orderData) ==
    IF Has(orderData, "paymentType") /\ orderData.paymentType = "Venmo"
    THEN "pending" ELSE "paid"

\* a bound parameter that is undefined is sent as NULL
\* (a nullable value is <<>> for NULL and <<v>> for the value v)
PaymentParam(orderData) ==
    IF Has(orderData, "paymentType") THEN <<orderData.paymentType>> ELSE <<>>

\* { ...orderData, orderId: newOrderId }
Spread(orderData, newOrderId) ==
    [f \in DOMAIN orderData \cup {"orderId"} |->
        IF f = "orderId" THEN newOrderId ELSE orderData[f]]

----------------------------------------------------------------------------
(* Relational backend: submitOrder (src/server/mariadb.js)                  *)

ConnectionLimit == 10

NoTx == [count |-> -1, orders |-> <<>>, items |-> <<>>]

NoLocals == [sub |-> 0, orderData |-> [totalAmount |-> 0], current |-> -1,
             newCount |-> -1, newOrderId |-> <<>>, status |-> "", idx |-> 0]

NewCall(p, od) == [orderData |-> od, read |-> -1, newOrderId |-> <<>>,
                   outcome |-> "running", commitNo |-> 0, ret |-> [orderId |-> <<>>]]

\* of a call that failed and stored nothing the history keeps the counter
\* value read, not the request body
Failed(call) == [call EXCEPT !.outcome = "err", !.orderData = NoLocals.orderData]

\* requests that hold a pooled connection
ConnPcs == {"select", "update", "insertOrder", "insertItems",
            "commit", "rollback", "returnOk", "returnErr"}
InUse == {q \in Procs : pc[q] \in ConnPcs}

NumCommits == Cardinality({s \in 1..Len(calls) : calls[s].commitNo > 0})

\* DECIMAL(10,2) columns hold hundredths
Decimal(n) == n * 100

fsvars == <<fsCounter, fsOrders, fsTransactions>>
dbvars == <<counter, orders, transactions, ordersAutoInc, txAutoInc, lockHolder, tx>>

\* POST /api/orders -> submitOrder(req.body)
Call(p, od) ==
    /\ backend = "mariadb"
    /\ pc[p] = "idle"
    /\ Len(calls) < MaxSubmits
    /\ pc' = [pc EXCEPT ![p] = "getConnection"]
    /\ local' = [local EXCEPT ![p] = [NoLocals EXCEPT !.sub = Len(calls) + 1,
                                                      !.orderData = od]]
    /\ calls' = Append(calls, NewCall(p, od))
    /\ UNCHANGED <<backend, dbvars, fsvars, c0, fmt, sessionvars, adminvars>>

\* const conn = await pool.getConnection(); await conn.beginTransaction();
\* (START TRANSACTION reads and writes no row)
GetConnection(p) ==
    /\ pc[p] = "getConnection"
    /\ Cardinality(InUse) < ConnectionLimit
    /\ pc' = [pc EXCEPT ![p] = "select"]
    /\ UNCHANGED <<backend, dbvars, fsvars, local, calls, c0, fmt, sessionvars, adminvars>>

\* getConnection rejects: outside the try block, the error goes to the caller
GetConnectionFail(p) ==
    /\ pc[p] = "getConnection"
    /\ pc' = [pc EXCEPT ![p] = "idle"]
    /\ calls' = [calls EXCEPT ![local[p].sub] = Failed(@)]
    /\ local' = [local EXCEPT ![p] = NoLocals]
    /\ UNCHANGED <<backend, dbvars, fsvars, c0, fmt, sessionvars, adminvars>>

\* the connection is handed out and beginTransaction rejects: control goes to
\* the catch block
BeginTransactionFail(p) ==
    /\ pc[p] = "getConnection"
    /\ Cardinality(InUse) < ConnectionLimit
    /\ pc' = [pc EXCEPT ![p] = "rollback"]
    /\ UNCHANGED <<backend, dbvars, fsvars, local, calls, c0, fmt, sessionvars, adminvars>>

\* mutant: a plain SELECT, which takes no lock
SelectForUpdate_NoLock(p) ==
    /\ pc[p] = "select"
    /\ LET current    == counter
           newCount   == NewCount(current)
           newOrderId == NewOrderId(newCount)
       IN /\ local' = [local EXCEPT ![p].current = current,
                                    ![p].newCount = newCount,
                                    ![p].newOrderId = newOrderId]
          /\ calls' = [calls EXCEPT ![local[p].sub].read = current,
                                    ![local[p].sub].newOrderId = newOrderId]
    /\ pc' = [pc EXCEPT ![p] = "update"]
    /\ UNCHANGED <<backend, dbvars, fsvars, c0, fmt, sessionvars, adminvars>>

\* SELECT count FROM meta WHERE id = 'counter' FOR UPDATE, then the
\* synchronous code up to the UPDATE
SelectForUpdate(p) ==
    /\ pc[p] = "select"
    /\ lockHolder = 0
    /\ lockHolder' = p
    /\ LET current    == counter
           newCount   == NewCount(current)
           newOrderId == NewOrderId(newCount)
       IN /\ local' = [local EXCEPT ![p].current = current,
                                    ![p].newCount = newCount,
                                    ![p].newOrderId = newOrderId]
          /\ calls' = [calls EXCEPT ![local[p].sub].read = current,
                                    ![local[p].sub].newOrderId = newOrderId]
    /\ pc' = [pc EXCEPT ![p] = "update"]
    /\ UNCHANGED <<backend, counter, orders, transactions, ordersAutoInc, txAutoInc,
                   tx, fsvars, c0, fmt, sessionvars, adminvars>>

\* mutant: the UPDATE of the counter row is left out
UpdateCounter_Skipped(p) ==
    /\ pc[p] = "update"
    /\ local' = [local EXCEPT ![p].status = Status(local[p].orderData)]
    /\ pc' = [pc EXCEPT ![p] = "insertOrder"]
    /\ UNCHANGED <<backend, dbvars, fsvars, calls, c0, fmt, sessionvars, adminvars>>

\* UPDATE meta SET count = ? WHERE id = 'counter', then the status expression
UpdateCounter(p) ==
    /\ pc[p] = "update"
    /\ lockHolder \in {0, p}
    /\ lockHolder' = p
    /\ tx' = [tx EXCEPT ![p].count = local[p].newCount]
    /\ local' = [local EXCEPT ![p].status = Status(local[p].orderData)]
    /\ pc' = [pc EXCEPT ![p] = "insertOrder"]
    /\ UNCHANGED <<backend, counter, orders, transactions, ordersAutoInc, txAutoInc,
                   fsvars, calls, c0, fmt, sessionvars, adminvars>>

\* orders.orderId is UNIQUE
OrderIdTaken(p, orderId) ==
    \/ \E i \in 1..Len(orders) : orders[i].orderId = orderId
    \/ \E q \in Procs \ {p} : \E i \in 1..Len(tx[q].orders) : tx[q].orders[i].orderId = orderId

\* INSERT INTO orders (...), then orderData.items.map(...) which queues one
\* INSERT per item on the connection (a missing items list throws here, and
\* Promise.all of an empty list resolves at once)
InsertOrder(p) ==
    /\ pc[p] = "insertOrder"
    /\ ~OrderIdTaken(p, local[p].newOrderId)
    /\ ordersAutoInc' = ordersAutoInc + 1
    /\ tx' = [tx EXCEPT ![p].orders = Append(@,
                 [id |-> ordersAutoInc + 1,
                  orderId |-> local[p].newOrderId,
                  totalAmount |-> Decimal(local[p].orderData.totalAmount),
                  paymentType |-> PaymentParam(local[p].orderData),
                  status |-> local[p].status])]
    /\ local' = [local EXCEPT ![p].idx = 1]
    /\ pc' = [pc EXCEPT ![p] = IF ~Has(local[p].orderData, "items") THEN "rollback"
                                ELSE IF local[p].orderData.items = <<>> THEN "commit"
                                ELSE "insertItems"]
    /\ UNCHANGED <<backend, counter, orders, transactions, txAutoInc, lockHolder,
                   fsvars, calls, c0, fmt, sessionvars, adminvars>>

\* INSERT INTO transactions (...) for the next queued item; with the last
\* one await Promise.all(txPromises) resolves
InsertItem(p) ==
    /\ pc[p] = "insertItems"
    /\ local[p].idx <= Len(local[p].orderData.items)
    /\ pc' = [pc EXCEPT ![p] = IF local[p].idx = Len(local[p].orderData.items)
                                THEN "commit" ELSE "insertItems"]
    /\ LET item == local[p].orderData.items[local[p].idx]
       IN tx' = [tx EXCEPT ![p].items = Append(@,
                    [id |-> txAutoInc + 1,
                     orderId |-> local[p].newOrderId,
                     item |-> item.name,
                     quantity |-> item.qty,
                     total |-> Decimal(item.price * item.qty)])]
    /\ txAutoInc' = txAutoInc + 1
    /\ local' = [local EXCEPT ![p].idx = @ + 1]
    /\ UNCHANGED <<backend, counter, orders, transactions, ordersAutoInc, lockHolder,
                   fsvars, calls, c0, fmt, sessionvars, adminvars>>

\* one queued item INSERT rejects: Promise.all rejects at once, the inserts
\* queued behind it still run on the connection before the ROLLBACK
InsertItemFail(p) ==
    /\ pc[p] = "insertItems"
    /\ local[p].idx <= Len(local[p].orderData.items)
    /\ txAutoInc' = txAutoInc + (Len(local[p].orderData.items) - local[p].idx)
    /\ pc' = [pc EXCEPT ![p] = "rollback"]
    /\ UNCHANGED <<backend, counter, orders, transactions, ordersAutoInc, lockHolder,
                   tx, fsvars, local, calls, c0, fmt, sessionvars, adminvars>>

\* a statement inside the try block rejects: control goes to the catch block
StatementFail(p) ==
    /\ pc[p] \in {"select", "update", "insertOrder", "commit"}
    /\ pc' = [pc EXCEPT ![p] = "rollback"]
    /\ UNCHANGED <<backend, dbvars, fsvars, local, calls, c0, fmt, sessionvars, adminvars>>

\* mutant: the COMMIT leaves the lock on the counter row in place
Commit_KeepsLock(p) ==
    /\ pc[p] = "commit"
    /\ counter' = IF tx[p].count >= 0 THEN tx[p].count ELSE counter
    /\ orders' = orders \o tx[p].orders
    /\ transactions' = transactions \o tx[p].items
    /\ tx' = [tx EXCEPT ![p] = NoTx]
    /\ calls' = [calls EXCEPT ![local[p].sub].commitNo = NumCommits + 1]
    /\ pc' = [pc EXCEPT ![p] = "returnOk"]
    /\ UNCHANGED <<backend, ordersAutoInc, txAutoInc, lockHolder, fsvars, local, c0, fmt,
                   sessionvars, adminvars>>

\* await conn.commit();
Commit(p) ==
    /\ pc[p] = "commit"
    /\ counter' = IF tx[p].count >= 0 THEN tx[p].count ELSE counter
    /\ orders' = orders \o tx[p].orders
    /\ transactions' = transactions \o tx[p].items
    /\ tx' = [tx EXCEPT ![p] = NoTx]
    /\ lockHolder' = IF lockHolder = p THEN 0 ELSE lockHolder
    /\ calls' = [calls EXCEPT ![local[p].sub].commitNo = NumCommits + 1]
    /\ pc' = [pc EXCEPT ![p] = "returnOk"]
    /\ UNCHANGED <<backend, ordersAutoInc, txAutoInc, fsvars, local, c0, fmt, sessionvars, adminvars>>

\* mutant: the counter UPDATE is not undone by the ROLLBACK
Rollback_KeepsCounter(p) ==
    /\ pc[p] = "rollback"
    /\ counter' = IF tx[p].count >= 0 THEN tx[p].count ELSE counter
    /\ tx' = [tx EXCEPT ![p] = NoTx]
    /\ lockHolder' = IF lockHolder = p THEN 0 ELSE lockHolder
    /\ pc' = [pc EXCEPT ![p] = "returnErr"]
    /\ UNCHANGED <<backend, orders, transactions, ordersAutoInc, txAutoInc,
                   fsvars, local, calls, c0, fmt, sessionvars, adminvars>>

\* await conn.rollback();  (a rollback that rejects has lost the connection,
\* and the server rolls the transaction back itself)
Rollback(p) ==
    /\ pc[p] = "rollback"
    /\ tx' = [tx EXCEPT ![p] = NoTx]
    /\ lockHolder' = IF lockHolder = p THEN 0 ELSE lockHolder
    /\ pc' = [pc EXCEPT ![p] = "returnErr"]
    /\ UNCHANGED <<backend, counter, orders, transactions, ordersAutoInc, txAutoInc,
                   fsvars, local, calls, c0, fmt, sessionvars, adminvars>>

\* finally { conn.release() }, then return { ...orderData, orderId } or throw err
Return(p) ==
    /\ pc[p] \in {"returnOk", "returnErr"}
    /\ calls' = [calls EXCEPT ![local[p].sub] =
                    IF pc[p] = "returnOk"
                    THEN [@ EXCEPT !.outcome = "ok",
                                   !.ret = Spread(local[p].orderData, local[p].newOrderId)]
                    ELSE Failed(@)]
    /\ local' = [local EXCEPT ![p] = NoLocals]
    /\ pc' = [pc EXCEPT ![p] = "idle"]
    /\ UNCHANGED <<backend, dbvars, fsvars, c0, fmt, sessionvars, adminvars>>

----------------------------------------------------------------------------
(* Relational backend: getOrders (src/server/mariadb.js)                    *)

\* parseFloat of a DECIMAL(10,2) column
parseFloat(dec) == dec \div 100

\* FROM orders o LEFT JOIN transactions t ON o.orderId = t.orderId
\* ORDER BY o.id DESC, t.id ASC
ItemRowsOf(orderId) ==
    SortSeq(SelectSeq(transactions, LAMBDA t : t.orderId = orderId),
            LAMBDA a, b : a.id < b.id)

JoinOne(o) ==
    LET ts == ItemRowsOf(o.orderId)
    IN IF ts = <<>>
       THEN <<[orderId |-> o.orderId, totalAmount |-> <<o.totalAmount>>,
               paymentType |-> o.paymentType, status |-> o.status,
               item |-> <<>>, quantity |-> <<>>, itemTotal |-> <<>>]>>
       ELSE [i \in 1..Len(ts) |->
               [orderId |-> o.orderId, totalAmount |-> <<o.totalAmount>>,
                paymentType |-> o.paymentType, status |-> o.status,
                item |-> <<ts[i].item>>, quantity |-> <<ts[i].quantity>>,
                itemTotal |-> <<ts[i].total>>]]

RECURSIVE JoinAll(_)
JoinAll(os) ==
    IF os = <<>> THEN <<>> ELSE JoinOne(Head(os)) \o JoinAll(Tail(os))

JoinRows == JoinAll(SortSeq(orders, LAMBDA a, b : a.id > b.id))

\* if (row.item): NULL and the empty string are falsy
Truthy(v) == v # <<>> /\ v[1] # ""

\* the for loop over rows, ordersMap kept in insertion order
RECURSIVE GroupRows(_, _)
GroupRows(rows, ordersMap) ==
    IF rows = <<>> THEN ordersMap
    ELSE LET row == Head(rows)
             has == \E i \in 1..Len(ordersMap) : ordersMap[i].orderId = row.orderId
             m1  == IF has THEN ordersMap
                    ELSE Append(ordersMap,
                           [orderId |-> row.orderId,
                            totalAmount |-> IF row.totalAmount # <<>>
                                            THEN parseFloat(row.totalAmount[1]) ELSE 0,
                            paymentType |-> row.paymentType,
                            status |-> row.status,
                            items |-> <<>>])
             k   == CHOOSE i \in 1..Len(m1) : m1[i].orderId = row.orderId
             m2  == IF Truthy(row.item)
                    THEN [m1 EXCEPT ![k].items = Append(@,
                            [name |-> row.item[1],
                             qty |-> row.quantity[1],
                             total |-> IF row.itemTotal # <<>>
                                       THEN parseFloat(row.itemTotal[1]) ELSE 0])]
                    ELSE m1
         IN GroupRows(Tail(rows), m2)

\* Array.from(ordersMap.values())
getOrders == GroupRows(JoinRows, <<>>)

----------------------------------------------------------------------------
(* Document backend: submitOrder (src/server/firestore.js)                  *)

\* POST /api/orders -> submitOrder(req.body)
FsCall(p, od) ==
    /\ backend = "firestore"
    /\ pc[p] = "idle"
    /\ Len(calls) < MaxSubmits
    /\ pc' = [pc EXCEPT ![p] = "fsGet"]
    /\ local' = [local EXCEPT ![p] = [NoLocals EXCEPT !.sub = Len(calls) + 1,
                                                      !.orderData = od]]
    /\ calls' = Append(calls, NewCall(p, od))
    /\ UNCHANGED <<backend, dbvars, fsvars, c0, fmt, sessionvars, adminvars>>

\* inside runTransaction: t.get(counterRef), the new counter and ID, t.set(...)
FsTxnGet(p) ==
    /\ pc[p] = "fsGet"
    /\ LET cnt        == NewCount(IF fsCounter >= 0 THEN fsCounter ELSE 0)
           newOrderId == NewOrderId(cnt)
       IN /\ local' = [local EXCEPT ![p].current = fsCounter,
                                    ![p].newCount = cnt,
                                    ![p].newOrderId = newOrderId]
          /\ calls' = [calls EXCEPT ![local[p].sub].read =
                                        IF fsCounter >= 0 THEN fsCounter ELSE 0,
                                    ![local[p].sub].newOrderId = newOrderId]
    /\ pc' = [pc EXCEPT ![p] = "fsTxnCommit"]
    /\ UNCHANGED <<backend, dbvars, fsvars, c0, fmt, sessionvars, adminvars>>

\* the transaction commits when the document it read was not written since
FsTxnCommit(p) ==
    /\ pc[p] = "fsTxnCommit"
    /\ fsCounter = local[p].current
    /\ fsCounter' = local[p].newCount
    /\ pc' = [pc EXCEPT ![p] = "fsSetOrder"]
    /\ UNCHANGED <<backend, dbvars, fsOrders, fsTransactions, local, calls, c0, fmt, sessionvars, adminvars>>

\* otherwise runTransaction runs the callback again
FsTxnRetry(p) ==
    /\ pc[p] = "fsTxnCommit"
    /\ fsCounter # local[p].current
    /\ pc' = [pc EXCEPT ![p] = "fsGet"]
    /\ UNCHANGED <<backend, dbvars, fsvars, local, calls, c0, fmt, sessionvars, adminvars>>

\* an awaited Firestore operation rejects: submitOrder has no try block, the
\* error goes to the route handler
FsFail(p) ==
    /\ pc[p] \in {"fsGet", "fsTxnCommit", "fsSetOrder", "fsBatch"}
    /\ calls' = [calls EXCEPT ![local[p].sub] =
                    IF pc[p] = "fsBatch" THEN [@ EXCEPT !.outcome = "err"] ELSE Failed(@)]
    /\ local' = [local EXCEPT ![p] = NoLocals]
    /\ pc' = [pc EXCEPT ![p] = "idle"]
    /\ UNCHANGED <<backend, dbvars, fsvars, c0, fmt, sessionvars, adminvars>>

\* orderData.orderId = newOrderId; await orderRef.set({...})
\* (set() rejects a field whose value is undefined)
FsSetOrder(p) ==
    /\ pc[p] = "fsSetOrder"
    /\ Has(local[p].orderData, "paymentType")
    /\ fsOrders' = Append(fsOrders,
                     [orderId |-> local[p].newOrderId,
                      totalAmount |-> local[p].orderData.totalAmount,
                      paymentType |-> local[p].orderData.paymentType,
                      status |-> Status(local[p].orderData)])
    /\ pc' = [pc EXCEPT ![p] = "fsBatch"]
    /\ UNCHANGED <<backend, dbvars, fsCounter, fsTransactions, local, calls, c0, fmt, sessionvars, adminvars>>

\* the batch of one set() per item, await batch.commit(); return orderData
\* (orderData.items.forEach throws when the list is missing)
FsBatchCommit(p) ==
    /\ pc[p] = "fsBatch"
    /\ Has(local[p].orderData, "items")
    /\ LET items == local[p].orderData.items
       IN fsTransactions' = fsTransactions \o
              [i \in 1..Len(items) |->
                  [orderId |-> local[p].newOrderId,
                   item |-> items[i].name,
                   quantity |-> items[i].qty,
                   total |-> items[i].price * items[i].qty]]
    /\ calls' = [calls EXCEPT ![local[p].sub].outcome = "ok",
                              ![local[p].sub].commitNo = NumCommits + 1,
                              ![local[p].sub].ret =
                                  Spread(local[p].orderData, local[p].newOrderId)]
    /\ local' = [local EXCEPT ![p] = NoLocals]
    /\ pc' = [pc EXCEPT ![p] = "idle"]
    /\ UNCHANGED <<backend, dbvars, fsCounter, fsOrders, c0, fmt, sessionvars, adminvars>>

----------------------------------------------------------------------------
(* Order-ID formatting as a function of the counter value                   *)

FormatCounters == {0, 8, 9, 41, 98, 99, 998, 999, 9998, 9999, 10000, 99998, 99999}

FormatIds(a, b) ==
    /\ fmt' = [a |-> a, b |-> b,
               ida |-> NewOrderId(NewCount(a)),
               idb |-> NewOrderId(NewCount(b))]
    /\ UNCHANGED <<ordervars, sessionvars, adminvars>>

----------------------------------------------------------------------------
(* Admin session store (src/server/mariadb.js)                              *)

ADMIN_TOKEN_TTL == 1000 * 60 * 30

NumTokens == 2         \* distinct token strings
MaxClock == 3          \* the clock runs up to MaxClock * ADMIN_TOKEN_TTL + 1

Tokens == 1..NumTokens

\* the instants at which the model observes the clock: every multiple of the
\* TTL and the millisecond after it
ClockValues == {k * ADMIN_TOKEN_TTL + e : k \in 0..MaxClock, e \in {0, 1}}

Tick(d) ==
    /\ d > now
    /\ now' = d
    /\ UNCHANGED <<adminTokens, issued, lastUse, purged, revoked, lastCall>>

\* crypto.randomBytes(24) never repeats a token
createAdminToken(token) ==
    /\ token \notin issued
    /\ LET expiry == now + ADMIN_TOKEN_TTL
       IN adminTokens' = [t \in DOMAIN adminTokens \cup {token} |->
                             IF t = token THEN expiry ELSE adminTokens[t]]
    /\ issued' = issued \cup {token}
    /\ lastUse' = [lastUse EXCEPT ![token] = now]
    /\ revoked' = revoked \ {token}
    /\ lastCall' = [op |-> "create", token |-> token, result |-> TRUE]
    /\ UNCHANGED <<now, purged>>

\* mutant: a token is rejected at the instant of its expiry
validateAdminToken_Strict(token) ==
    LET exp == IF token \in DOMAIN adminTokens THEN adminTokens[token] ELSE 0
    IN IF exp = 0
       THEN /\ lastCall' = [op |-> "validate", token |-> token, result |-> FALSE]
            /\ UNCHANGED <<now, adminTokens, issued, lastUse, purged, revoked>>
       ELSE IF now >= exp
       THEN /\ adminTokens' = [t \in DOMAIN adminTokens \ {token} |-> adminTokens[t]]
            /\ purged' = purged \cup {token}
            /\ lastUse' = [lastUse EXCEPT ![token] = -1]
            /\ lastCall' = [op |-> "validate", token |-> token, result |-> FALSE]
            /\ UNCHANGED <<now, issued, revoked>>
       ELSE /\ adminTokens' = [adminTokens EXCEPT ![token] = now + ADMIN_TOKEN_TTL]
            /\ lastUse' = [lastUse EXCEPT ![token] = now]
            /\ lastCall' = [op |-> "validate", token |-> token, result |-> TRUE]
            /\ UNCHANGED <<now, issued, purged, revoked>>

validateAdminToken(token) ==
    LET exp == IF token \in DOMAIN adminTokens THEN adminTokens[token] ELSE 0
    IN IF exp = 0
       THEN /\ lastCall' = [op |-> "validate", token |-> token, result |-> FALSE]
            /\ UNCHANGED <<now, adminTokens, issued, lastUse, purged, revoked>>
       ELSE IF now > exp
       THEN /\ adminTokens' = [t \in DOMAIN adminTokens \ {token} |-> adminTokens[t]]
            /\ purged' = purged \cup {token}
            /\ lastUse' = [lastUse EXCEPT ![token] = -1]
            /\ lastCall' = [op |-> "validate", token |-> token, result |-> FALSE]
            /\ UNCHANGED <<now, issued, revoked>>
       ELSE /\ adminTokens' = [adminTokens EXCEPT ![token] = now + ADMIN_TOKEN_TTL]
            /\ lastUse' = [lastUse EXCEPT ![token] = now]
            /\ lastCall' = [op |-> "validate", token |-> token, result |-> TRUE]
            /\ UNCHANGED <<now, issued, purged, revoked>>

\* mutant: only an entry that has not yet expired is removed
revokeAdminToken_IfLive(token) ==
    /\ adminTokens' = [t \in {u \in DOMAIN adminTokens :
                                 u # token \/ now > adminTokens[u]} |-> adminTokens[t]]
    /\ lastUse' = [lastUse EXCEPT ![token] = -1]
    /\ revoked' = revoked \cup {token}
    /\ lastCall' = [op |-> "revoke", token |-> token,
                    result |-> token \in DOMAIN adminTokens]
    /\ UNCHANGED <<now, issued, purged>>

\* (every token the model presents is a non-empty string)
revokeAdminToken(token) ==
    /\ adminTokens' = [t \in DOMAIN adminTokens \ {token} |-> adminTokens[t]]
    /\ lastUse' = [lastUse EXCEPT ![token] = -1]
    /\ revoked' = revoked \cup {token}
    /\ lastCall' = [op |-> "revoke", token |-> token,
                    result |-> token \in DOMAIN adminTokens]
    /\ UNCHANGED <<now, issued, purged>>

----------------------------------------------------------------------------
(* Credential Guard (src/server/mariadb.js) and the credential seeded by    *)
(* initializeDatabase (src/server/db.js)                                    *)

\* values of a JSON body: a string, or a number written as its text
Str(s) == [type |-> "string", v |-> s]
Num(s) == [type |-> "number", v |-> s]

AdminPassword == "hunter2"
Salts == {"pepper", "salt"}
Passwords == {Str(AdminPassword), Str("guess"), Str(""), Num("123")}

\* crypto.pbkdf2Sync(password, salt, 100000, 64, 'sha512').toString('hex'): the
\* hex text of 64 bytes that are a function of password and salt
pbkdf2Sync(password, salt) == [bytes |-> 64, of |-> <<password, salt>>]

\* hex texts a meta_text row may hold: seeded hashes, one cut to 32 bytes, ''
StoredHashes ==
    {pbkdf2Sync(AdminPassword, s) : s \in Salts}
        \cup {[bytes |-> 32, of |-> <<AdminPassword, "pepper">>], [bytes |-> 0, of |-> <<>>]}

\* the table does not exist unless credentials were seeded; a column value is
\* <<>> when the row is absent
NoMetaText == [exists |-> FALSE, admin_hash |-> <<>>, admin_salt |-> <<>>]
SeededMetaText == [exists |-> TRUE, admin_hash |-> <<pbkdf2Sync(AdminPassword, "pepper")>>,
                   admin_salt |-> <<"pepper">>]
MetaTexts ==
    {NoMetaText} \cup
    {[exists |-> TRUE, admin_hash |-> h, admin_salt |-> s] :
        h \in {<<>>} \cup {<<x>> : x \in StoredHashes},
        s \in {<<>>, <<"">>} \cup {<<x>> : x \in Salts}}

\* crypto.timingSafeEqual throws on buffers of different length
timingSafeEqual(a, b) ==
    IF a.bytes # b.bytes THEN "throw" ELSE IF a = b THEN "true" ELSE "false"

\* the try block; fault: a query is rejected by the pool or the server
GuardBody(meta, password, fault) ==
    IF fault \/ ~meta.exists
    THEN "throw"
    ELSE LET storedHash == meta.admin_hash
             storedSalt == meta.admin_salt
         IN IF \/ storedHash = <<>> \/ storedHash[1].bytes = 0
               \/ storedSalt = <<>> \/ storedSalt[1] = ""
            THEN "false"
            ELSE IF password.type # "string"
            THEN "throw"      \* pbkdf2Sync rejects a password that is a number
            ELSE timingSafeEqual(pbkdf2Sync(password.v, storedSalt[1]), storedHash[1])

\* mutant: without the catch
validateAdminPassword_NoCatch(meta, password, fault) ==
    GuardBody(meta, password, fault)

validateAdminPassword(meta, password, fault) ==
    LET r == GuardBody(meta, password, fault)
    IN IF r = "throw" THEN "false" ELSE r

NoGuardCall == [meta |-> NoMetaText, password |-> Str(""), fault |-> FALSE, result |-> "none"]

VerifyPassword(meta, password, fault) ==
    /\ gres' = [meta |-> meta, password |-> password, fault |-> fault,
                result |-> validateAdminPassword(meta, password, fault)]
    /\ UNCHANGED <<ordervars, fmt, sessionvars, metaText, loginvars, vres, catalogvars>>

----------------------------------------------------------------------------
(* Login throttle: POST /api/admin/login (src/unnamed/part_000)             *)

MAX_ATTEMPTS == 5
ATTEMPT_WINDOW_MS == 1000 * 60 * 10
\* mutant: a lockout shorter than the attempt window
LOCK_TIME_MS_Short == 1000 * 60 * 5
LOCK_TIME_MS == 1000 * 60 * 15

\* req.ip || req.connection.remoteAddress || 'unknown'
Clients == {"10.0.0.1", "unknown"}
LoginProcs == 1..NumLogins
Refs == 1..(NumLogins + Cardinality(Clients))

\* req.body.password: <<>> when the body has none
LoginPasswords == {<<>>, <<Str("")>>, <<Str(AdminPassword)>>, <<Str("guess")>>}

\* the instants at which the model observes the clock: the multiples of five
\* minutes, among them the last instant of a window (firstAt + 10 minutes) and
\* the first instant after a lockout (lockedUntil)
LoginClockValues == {k * (1000 * 60 * 5) : k \in 0..MaxLoginClock}

LoginTick(d) ==
    /\ d > now
    /\ now' = d
    /\ UNCHANGED <<ordervars, fmt, adminTokens, issued, lastUse, purged, revoked,
                   lastCall, adminvars>>

NoLogin == [ip |-> "", now |-> 0, record |-> 0, password |-> Str("")]

NewRecord(t) == [count |-> 0, firstAt |-> t, lockedUntil |-> 0]

\* loginAttempts.get(ip) || { count: 0, firstAt: now, lockedUntil: 0 }
RecordOf(ip) ==
    IF ip \in DOMAIN loginAttempts THEN heap[loginAttempts[ip]] ELSE NewRecord(now)

\* the objects still referenced by the Map or by a suspended handler
Live(h, la, handlers) ==
    LET refs == {la[i] : i \in DOMAIN la} \cup {lreq[q].record : q \in handlers}
    IN [r \in DOMAIN h \cap refs |-> h[r]]

Verifying == {q \in LoginProcs : lpc[q] = "verify"}

\* the handler up to its await: lock check, missing password, call of the guard
LoginRequest(p, ip, password) ==
    /\ lpc[p] = "idle"
    /\ LET record == RecordOf(ip)
       IN IF record.lockedUntil # 0 /\ now < record.lockedUntil
          THEN /\ lastLogin' = [ip |-> ip, status |-> 429]
               /\ UNCHANGED <<loginAttempts, heap, lpc, lreq, cleared>>
          ELSE IF password = <<>> \/ password[1].v = ""
          THEN /\ lastLogin' = [ip |-> ip, status |-> 400]
               /\ UNCHANGED <<loginAttempts, heap, lpc, lreq, cleared>>
          ELSE LET ref == IF ip \in DOMAIN loginAttempts
                          THEN loginAttempts[ip]
                          ELSE CHOOSE r \in Refs : r \notin DOMAIN heap
               IN /\ heap' = [r \in DOMAIN heap \cup {ref} |->
                                 IF r = ref THEN record ELSE heap[r]]
                  /\ lreq' = [lreq EXCEPT ![p] = [ip |-> ip, now |-> now, record |-> ref,
                                                  password |-> password[1]]]
                  /\ lpc' = [lpc EXCEPT ![p] = "verify"]
                  /\ UNCHANGED <<loginAttempts, cleared, lastLogin>>
    /\ UNCHANGED <<ordervars, fmt, sessionvars, metaText, gres, vres, catalogvars>>

\* mutant: the count is never restarted
FailedAttempt_NoWindow(record, n) ==
    LET counted == [record EXCEPT !.count = record.count + 1]
    IN IF counted.count >= MAX_ATTEMPTS
       THEN [counted EXCEPT !.lockedUntil = n + LOCK_TIME_MS]
       ELSE counted

\* the update of the record after a failed verification, n: the handler's now
FailedAttempt(record, n) ==
    LET counted == IF n - record.firstAt > ATTEMPT_WINDOW_MS
                   THEN [record EXCEPT !.count = 1, !.firstAt = n]
                   ELSE [record EXCEPT !.count = record.count + 1]
    IN IF counted.count >= MAX_ATTEMPTS
       THEN [counted EXCEPT !.lockedUntil = n + LOCK_TIME_MS]
       ELSE counted

\* the handler after its await; the token strings are interchangeable, the
\* model hands them out in order
LoginVerified(p, fault) ==
    /\ lpc[p] = "verify"
    /\ LET r == lreq[p]
           ok == validateAdminPassword(metaText, r.password, fault) = "true"
       IN IF ~ok
          THEN LET set == [i \in DOMAIN loginAttempts \cup {r.ip} |->
                              IF i = r.ip THEN r.record ELSE loginAttempts[i]]
               IN /\ loginAttempts' = set
                  /\ heap' = Live([heap EXCEPT ![r.record] = FailedAttempt(heap[r.record], r.now)],
                                  set, Verifying \ {p})
                  /\ cleared' = cleared \ {r.ip}
                  /\ lastLogin' = [ip |-> r.ip, status |-> 401]
                  /\ UNCHANGED sessionvars
          ELSE /\ loginAttempts' = [i \in DOMAIN loginAttempts \ {r.ip} |-> loginAttempts[i]]
               /\ heap' = Live(heap, loginAttempts', Verifying \ {p})
               /\ cleared' = cleared \cup {r.ip}
               /\ \E token \in Tokens :
                     /\ \A u \in Tokens \ issued : token <= u
                     /\ createAdminToken(token)
               /\ lastLogin' = [ip |-> r.ip, status |-> 200]
    /\ lpc' = [lpc EXCEPT ![p] = "idle"]
    /\ lreq' = [lreq EXCEPT ![p] = NoLogin]
    /\ UNCHANGED <<ordervars, fmt, metaText, gres, vres, catalogvars>>

----------------------------------------------------------------------------
(* Catalog store: validateItemFields, createItem, updateItem, deleteItem    *)
(* (src/server/mariadb.js), the items table and its seed (src/server/db.js) *)
(*                                                                          *)
(* A field of a JSON body is undefined, null, a number or a string; the     *)
(* strings are sequences of one-character strings, so that trim() and       *)
(* Number() are computed.                                                   *)

Undefined == [type |-> "undefined"]
Null == [type |-> "null"]
Number(n) == [type |-> "number", n |-> n]
Text(s) == [type |-> "string", s |-> s]

Raffles == Text(<<"r", "a", "f", "f", "l", "e", "s">>)
Concessions == Text(<<"c", "o", "n", "c", "e", "s", "s", "i", "o", "n", "s">>)
Other == Text(<<"o", "t", "h", "e", "r">>)

\* !v
Falsy(v) ==
    \/ v.type \in {"undefined", "null"}
    \/ v.type = "string" /\ v.s = <<>>
    \/ v.type = "number" /\ v.n = 0

\* String.prototype.trim
RECURSIVE trimStart(_)
trimStart(s) ==
    IF s # <<>> /\ s[1] = " " THEN trimStart(Tail(s)) ELSE s

RECURSIVE trimEnd(_)
trimEnd(s) ==
    IF s # <<>> /\ s[Len(s)] = " " THEN trimEnd(SubSeq(s, 1, Len(s) - 1)) ELSE s

trim(s) == trimEnd(trimStart(s))

IsDigits(s) ==
    s # <<>> /\ \A i \in 1..Len(s) : s[i] \in {"0", "1", "2", "3", "4", "5", "6", "7", "8", "9"}

\* Number(v) for the values above: undefined is NaN, null is 0, a string is
\* trimmed and read as an optionally signed decimal integer ('' is 0), any
\* other text is NaN
NaN == [nan |-> TRUE, n |-> 0]
NumberOf(v) ==
    IF v.type = "undefined" THEN NaN
    ELSE IF v.type = "null" THEN [nan |-> FALSE, n |-> 0]
    ELSE IF v.type = "number" THEN [nan |-> FALSE, n |-> v.n]
    ELSE LET t == trim(v.s)
         IN IF t = <<>> THEN [nan |-> FALSE, n |-> 0]
            ELSE IF IsDigits(t) THEN [nan |-> FALSE, n |-> ParseInt(t)]
            ELSE IF t[1] = "-" /\ IsDigits(Tail(t)) THEN [nan |-> FALSE, n |-> 0 - ParseInt(Tail(t))]
            ELSE IF t[1] = "+" /\ IsDigits(Tail(t)) THEN [nan |-> FALSE, n |-> ParseInt(Tail(t))]
            ELSE NaN

MissingPayloadMsg == "Missing item payload"
TabMsg == "'tab' is required and must be 'raffles' or 'concessions'"
CategoryMsg == "'category' is required"
NameMsg == "'name' is required"
DataNameMsg == "'dataName' is required"
PriceMsg == "'price' must be a non-negative number"

\* !v || typeof v !== 'string' || v.trim().length === 0
NotText(v) == Falsy(v) \/ v.type # "string" \/ Len(trim(v.s)) = 0

\* errs.push(msg) when the test holds
Push(errs, test, msg) == IF test THEN Append(errs, msg) ELSE errs

\* mutant: returns at the first violation
validateItemFields_FirstOnly(payload) ==
    IF payload = <<>>
    THEN <<MissingPayloadMsg>>
    ELSE LET item == payload[1]
             p == NumberOf(item.price)
         IN IF Falsy(item.tab) \/ (item.tab # Raffles /\ item.tab # Concessions) THEN <<TabMsg>>
            ELSE IF NotText(item.category) THEN <<CategoryMsg>>
            ELSE IF NotText(item.name) THEN <<NameMsg>>
            ELSE IF NotText(item.dataName) THEN <<DataNameMsg>>
            ELSE IF p.nan \/ p.n < 0 THEN <<PriceMsg>>
            ELSE <<>>

\* payload: <<>> when the request has no body, else <<item>>
validateItemFields(payload) ==
    IF payload = <<>>
    THEN <<MissingPayloadMsg>>
    ELSE LET item == payload[1]
             e1 == Push(<<>>, Falsy(item.tab) \/ (item.tab # Raffles /\ item.tab # Concessions),
                        TabMsg)
             e2 == Push(e1, NotText(item.category), CategoryMsg)
             e3 == Push(e2, NotText(item.name), NameMsg)
             e4 == Push(e3, NotText(item.dataName), DataNameMsg)
             p == NumberOf(item.price)
         IN Push(e4, p.nan \/ p.n < 0, PriceMsg)

Item(tab, category, name, dataName, price) ==
    [tab |-> tab, category |-> category, name |-> name, dataName |-> dataName,
     price |-> price, color |-> Undefined, orderIndex |-> Undefined]

\* the payloads validateItemFields is applied to
TextInputs == {Undefined, Text(<<>>), Text(<<" ">>), Text(<<" ", "P", "i", "e", " ">>), Number(7)}
PriceInputs == {Undefined, Null, Number(0 - 1), Number(0), Number(3), Text(<<>>),
                Text(<<"a", "b", "c">>), Text(<<"3">>), Text(<<"-", "1">>)}
ItemInputs ==
    {<<>>} \cup
    {<<Item(tab, category, name, dataName, price)>> :
        tab \in {Undefined, Raffles, Concessions, Other},
        category \in {Undefined, Text(<<" ">>), Text(<<"P", "i", "e", "s">>)},
        name \in TextInputs,
        dataName \in {Undefined, Text(<<>>), Text(<<"p", "i", "e">>)},
        price \in PriceInputs}

NoValidation == [called |-> FALSE, payload |-> <<>>, errs |-> <<>>]

ValidateItem(payload) ==
    /\ vres' = [called |-> TRUE, payload |-> payload, errs |-> validateItemFields(payload)]
    /\ UNCHANGED <<ordervars, fmt, sessionvars, metaText, gres, loginvars, catalogvars>>

\* a seeded row of table items; its texts are never trimmed or parsed and are
\* kept whole
SeedRow(tab, category, name, dataName, price, orderIndex) ==
    [tab |-> Str(tab), category |-> Str(category), name |-> Str(name),
     dataName |-> Str(dataName), price |-> Number(price), color |-> Str("gray-600"),
     orderIndex |-> Number(orderIndex)]

\* seedItems (the emoji of the names and categories are left out); the rows
\* get the ids 1..19
seedItems ==
    <<
       SeedRow("raffles", "Raffles", "Single Ticket", "single_ticket", 1, 1),
       SeedRow("raffles", "Raffles", "6 Pack Ticket", "6pack_ticket", 5, 2),
       SeedRow("raffles", "Raffles", "14 Pack Ticket", "14pack_ticket", 10, 3),
       SeedRow("raffles", "Raffles", "30 Pack Ticket", "30pack_ticket", 20, 4),
       SeedRow("concessions", "Snacks", "Pizza Slice", "pizza", 3, 1),
       SeedRow("concessions", "Snacks", "Donuts", "donuts", 2, 2),
       SeedRow("concessions", "Snacks", "Muffins", "muffins", 3, 3),
       SeedRow("concessions", "Snacks", "Chips", "chips", 2, 4),
       SeedRow("concessions", "Candy", "Candy Bar", "candy_bar", 3, 1),
       SeedRow("concessions", "Candy", "Nerds", "nerds", 2, 2),
       SeedRow("concessions", "Candy", "Ring Pop", "ring_pop", 2, 3),
       SeedRow("concessions", "Candy", "Sour Patch Kids", "sour_patch", 2, 4),
       SeedRow("concessions", "Candy", "Skittles/Starburst", "skittles_starburst", 2, 5),
       SeedRow("concessions", "Candy", "Air Head Extremes", "air_heads", 2, 6),
       SeedRow("concessions", "Candy", "Other", "candy_other", 2, 7),
       SeedRow("concessions", "Drinks", "Gatorade", "gatorade", 3, 1),
       SeedRow("concessions", "Drinks", "Water", "water", 2, 2),
       SeedRow("concessions", "Drinks", "Coffee", "coffee", 3, 3),
       SeedRow("concessions", "Drinks", "Other Drink", "drink_other", 2, 4)
    >>

\* v || d
OrElse(v, d) == IF Falsy(v) THEN d ELSE v

\* the parameters createItem and updateItem pass to the statement
RowOf(item) ==
    [tab |-> item.tab, category |-> item.category, name |-> item.name,
     dataName |-> item.dataName, price |-> OrElse(item.price, Number(0)),
     color |-> OrElse(item.color, Str("gray-600")),
     orderIndex |-> OrElse(item.orderIndex, Number(0))]

----------------------------------------------------------------------------
(* Admin gate and the admin item routes (src/unnamed/part_000)              *)

Pie == Item(Concessions, Text(<<"S", "n", "a", "c", "k", "s">>), Text(<<"P", "i", "e">>),
            Text(<<"p", "i", "e">>), Number(4))
\* no tab, an empty name and a negative price
BadItem == Item(Undefined, Text(<<"S", "n", "a", "c", "k", "s">>), Text(<<>>),
                Text(<<"p", "i", "e">>), Number(0 - 1))
AdminBodies == {<<>>, <<Pie>>, <<BadItem>>}

\* req.params.id: the first seeded row, and an id no row has
AdminIds == {1, 404}

\* tokenFromReq: a token of the Bearer header or the admin_token cookie, 0
\* when the request has neither
PresentedTokens == Tokens \cup {0}

\* what the routes are called with
AdminCalls ==
    {[op |-> "create", id |-> 0, body |-> b] : b \in AdminBodies}
        \cup {[op |-> "update", id |-> i, body |-> b] : i \in AdminIds, b \in AdminBodies}
        \cup {[op |-> "delete", id |-> i, body |-> <<>>] : i \in AdminIds}

NoAdminRequest == [pc |-> "idle", op |-> "none", id |-> 0, body |-> <<>>,
                   status |-> 0, details |-> <<>>]

\* res.status(status).json(...): the handler is done
Response(status, details) ==
    [pc |-> "idle", op |-> "none", id |-> 0, body |-> <<>>,
     status |-> status, details |-> details]

\* fault: the query is rejected by the pool or the server
isAdminConfigured(meta, fault) ==
    IF fault \/ ~meta.exists THEN FALSE ELSE meta.admin_hash # <<>>

\* mutant: the create and update routes without their validation
Route_NoValidation(call) ==
    areq' = [pc |-> "write", op |-> call.op, id |-> call.id, body |-> call.body,
             status |-> 0, details |-> <<>>]

\* the route handler up to its await, after requireAdmin has called next()
Route(call) ==
    LET errs == IF call.op \in {"create", "update"} THEN validateItemFields(call.body) ELSE <<>>
    IN IF errs # <<>>
       THEN areq' = Response(400, errs)
       ELSE areq' = [pc |-> "write", op |-> call.op, id |-> call.id, body |-> call.body,
                     status |-> 0, details |-> <<>>]

\* requireAdmin and the route handler up to its await; isAdminConfigured only
\* reads, so the request is taken at the instant its lookup returns
AdminRequest(call, token, fault) ==
    /\ areq.pc = "idle"
    /\ call.op = "create" => itemsAutoInc < Len(seedItems) + MaxCreates
    /\ allowUnauth => ~fault       \* no lookup is made
    /\ (allowUnauth \/ ~isAdminConfigured(metaText, fault)) => token = 0  \* nor the token read
    /\ IF allowUnauth
       THEN Route(call) /\ UNCHANGED sessionvars
       ELSE IF ~isAdminConfigured(metaText, fault)
       THEN Route(call) /\ UNCHANGED sessionvars
       ELSE IF token = 0
       THEN areq' = Response(401, <<>>) /\ UNCHANGED sessionvars
       ELSE /\ validateAdminToken(token)
            /\ IF lastCall'.result THEN Route(call) ELSE areq' = Response(401, <<>>)
    /\ UNCHANGED <<ordervars, fmt, metaText, gres, loginvars, vres, allowUnauth, itemRows,
                   itemsAutoInc>>

\* createItem / updateItem / deleteItem and the response; an UPDATE or DELETE
\* that matches no row is not an error
AdminWrite ==
    /\ areq.pc = "write"
    /\ areq.op \in {"create", "update"} => areq.body # <<>>
    /\ areq.op = "create" =>
          /\ itemsAutoInc' = itemsAutoInc + 1
          /\ itemRows' = [i \in DOMAIN itemRows \cup {itemsAutoInc + 1} |->
                             IF i = itemsAutoInc + 1 THEN RowOf(areq.body[1]) ELSE itemRows[i]]
    /\ areq.op = "update" =>
          /\ itemRows' = [i \in DOMAIN itemRows |->
                             IF i = areq.id THEN RowOf(areq.body[1]) ELSE itemRows[i]]
          /\ UNCHANGED itemsAutoInc
    /\ areq.op = "delete" =>
          /\ itemRows' = [i \in DOMAIN itemRows \ {areq.id} |-> itemRows[i]]
          /\ UNCHANGED itemsAutoInc
    /\ areq' = Response(200, <<>>)
    /\ UNCHANGED <<ordervars, fmt, sessionvars, metaText, gres, loginvars, vres, allowUnauth>>

\* the statement is rejected, or createItem / updateItem throws on a request
\* without a body
AdminWriteFail ==
    /\ areq.pc = "write"
    /\ areq' = Response(500, <<>>)
    /\ UNCHANGED <<ordervars, fmt, sessionvars, metaText, gres, loginvars, vres, allowUnauth,
                   itemRows, itemsAutoInc>>

----------------------------------------------------------------------------
(* Initial states and specifications                                        *)

PriorOrder(i) == [id |-> i, orderId |-> NewOrderId(i), totalAmount |-> Decimal(2),
                  paymentType |-> <<"Cash">>, status |-> "paid"]
PriorItem(i)  == [id |-> i, orderId |-> NewOrderId(i), item |-> "Water",
                  quantity |-> 1, total |-> Decimal(2)]

InitOther ==
    /\ fmt = [a |-> -1, b |-> -1, ida |-> <<>>, idb |-> <<>>]
    /\ now = 0
    /\ adminTokens = <<>>
    /\ issued = {}
    /\ lastUse = [t \in Tokens |-> -1]
    /\ purged = {}
    /\ revoked = {}
    /\ lastCall = [op |-> "none", token |-> 0, result |-> FALSE]
    /\ gres = NoGuardCall
    /\ loginAttempts = <<>>
    /\ heap = <<>>
    /\ lpc = [p \in LoginProcs |-> "idle"]
    /\ lreq = [p \in LoginProcs |-> NoLogin]
    /\ cleared = {}
    /\ lastLogin = [ip |-> "", status |-> 0]
    /\ vres = NoValidation
    /\ areq = NoAdminRequest

\* ADMIN_PASSWORD and ADMIN_SALT were set when the database was initialized,
\* admin checks are on; the catalog plays no part
InitSeeded ==
    /\ metaText = SeededMetaText
    /\ allowUnauth = FALSE
    /\ itemRows = <<>>
    /\ itemsAutoInc = 0

\* the store holds the orders 1..c of earlier runs and the counter c
InitOrders(b, c) ==
    /\ backend = b
    /\ counter = c
    /\ orders = [i \in 1..c |-> PriorOrder(i)]
    /\ transactions = [i \in 1..c |-> PriorItem(i)]
    /\ ordersAutoInc = c
    /\ txAutoInc = c
    /\ lockHolder = 0
    /\ tx = [p \in Procs |-> NoTx]
    /\ fsCounter = -1
    /\ fsOrders = <<>>
    /\ fsTransactions = <<>>
    /\ pc = [p \in Procs |-> "idle"]
    /\ local = [p \in Procs |-> NoLocals]
    /\ calls = <<>>
    /\ c0 = c

\* initializeDatabase (src/server/db.js) has seeded the counter row with 0;
\* the server imports mariadb.js (src/unnamed/part_000) or firestore.js
\* (src/server/index.js)
Init ==
    /\ \E b \in {"mariadb", "firestore"} : InitOrders(b, 0)
    /\ InitOther
    /\ InitSeeded

NextMaria ==
    \E p \in Procs :
        \/ \E od \in OrderInputs : Call(p, od)
        \/ GetConnection(p)
        \/ GetConnectionFail(p)
        \/ BeginTransactionFail(p)
        \/ SelectForUpdate(p)
        \/ UpdateCounter(p)
        \/ InsertOrder(p)
        \/ InsertItem(p)
        \/ InsertItemFail(p)
        \/ StatementFail(p)
        \/ Commit(p)
        \/ Rollback(p)
        \/ Return(p)

NextFire ==
    \E p \in Procs :
        \/ \E od \in OrderInputs : FsCall(p, od)
        \/ FsTxnGet(p)
        \/ FsTxnCommit(p)
        \/ FsTxnRetry(p)
        \/ FsFail(p)
        \/ FsSetOrder(p)
        \/ FsBatchCommit(p)

Next == NextMaria \/ NextFire

Spec == Init /\ [][Next]_vars

\* the relational backend alone
InitMaria == InitOrders("mariadb", 0) /\ InitOther /\ InitSeeded
SpecMaria == InitMaria /\ [][NextMaria]_vars

\* the relational backend with a store and an event loop that answer: every
\* awaited statement gets its result or its error (a lock wait ends with the
\* lock or with the lock-wait timeout), the pool hands out a free connection,
\* and the code after an await runs; that a request arrives, or that
\* getConnection rejects, is not forced
Answer(p) ==
    \/ GetConnection(p)
    \/ BeginTransactionFail(p)
    \/ SelectForUpdate(p)
    \/ UpdateCounter(p)
    \/ InsertOrder(p)
    \/ InsertItem(p)
    \/ InsertItemFail(p)
    \/ StatementFail(p)
    \/ Commit(p)
    \/ Rollback(p)
    \/ Return(p)
\* (what a request carries does not bear on waiting: one body that commits,
\* one whose missing item list throws after the INSERT)
WaitInputs == {VenmoOrder, NoItems}
NextMariaFair ==
    \E p \in Procs :
        \/ \E od \in WaitInputs : Call(p, od)
        \/ GetConnectionFail(p)
        \/ Answer(p)
SpecMariaFair == InitMaria /\ [][NextMariaFair]_vars /\ \A p \in Procs : WF_vars(Answer(p))

\* the document backend alone
InitFire == InitOrders("firestore", 0) /\ InitOther /\ InitSeeded
SpecFire == InitFire /\ [][NextFire]_vars

\* the relational backend after 41 earlier orders
InitE2E == InitOrders("mariadb", 41) /\ InitOther /\ InitSeeded
SpecE2E == InitE2E /\ [][NextMaria]_vars

\* the formatting alone
InitFormat == InitOrders("none", 0) /\ InitOther /\ InitSeeded
NextFormat == \E a \in FormatCounters, b \in FormatCounters : FormatIds(a, b)
SpecFormat == InitFormat /\ [][NextFormat]_vars

\* the session store alone
InitSession == InitOrders("none", 0) /\ InitOther /\ InitSeeded
NextSession ==
    /\ \/ \E d \in ClockValues : Tick(d)
       \/ \E t \in Tokens : createAdminToken(t)
       \/ \E t \in Tokens : validateAdminToken(t)
       \/ \E t \in Tokens : revokeAdminToken(t)
    /\ UNCHANGED <<ordervars, fmt, adminvars>>
SpecSession == InitSession /\ [][NextSession]_vars

\* the Credential Guard alone
InitGuard == InitOrders("none", 0) /\ InitOther /\ InitSeeded
NextGuard ==
    \E meta \in MetaTexts, password \in Passwords, fault \in BOOLEAN :
        VerifyPassword(meta, password, fault)
SpecGuard == InitGuard /\ [][NextGuard]_vars

\* the catalog validation alone
InitValidate == InitOrders("none", 0) /\ InitOther /\ InitSeeded
NextValidate == \E payload \in ItemInputs : ValidateItem(payload)
SpecValidate == InitValidate /\ [][NextValidate]_vars

\* the admin item routes behind requireAdmin, with one admin who logs in
\* (token 1), may log out, and requests that present any token or none
InitAdmin ==
    /\ InitOrders("none", 0)
    /\ InitOther
    /\ \/ metaText = SeededMetaText /\ allowUnauth \in BOOLEAN
       \/ metaText = NoMetaText /\ allowUnauth = FALSE
    /\ itemRows = seedItems
    /\ itemsAutoInc = Len(seedItems)
NextAdmin ==
    \/ /\ \/ \E d \in ClockValues : Tick(d)
          \/ createAdminToken(1)
          \/ revokeAdminToken(1)
       /\ UNCHANGED <<ordervars, fmt, adminvars>>
    \/ \E call \in AdminCalls, token \in PresentedTokens, fault \in BOOLEAN :
          AdminRequest(call, token, fault)
    \/ AdminWrite
    \/ AdminWriteFail
SpecAdmin == InitAdmin /\ [][NextAdmin]_vars

\* the login route, one request after the other
InitLogin == InitOrders("none", 0) /\ InitOther /\ InitSeeded
NextLogin ==
    \/ \E d \in LoginClockValues : LoginTick(d)
    \/ \E p \in LoginProcs, ip \in Clients, password \in LoginPasswords :
          /\ Verifying = {} /\ p = 1
          /\ LoginRequest(p, ip, password)
    \/ \E p \in LoginProcs, fault \in BOOLEAN : LoginVerified(p, fault)
SpecLogin == InitLogin /\ [][NextLogin]_vars

\* the login route under concurrent requests of one client
NextLoginConc ==
    \/ \E d \in LoginClockValues : LoginTick(d)
    \/ \E p \in LoginProcs, password \in LoginPasswords :
          LoginRequest(p, "10.0.0.1", password)
    \/ \E p \in LoginProcs, fault \in BOOLEAN : LoginVerified(p, fault)
SpecLoginConc == InitLogin /\ [][NextLoginConc]_vars

----------------------------------------------------------------------------
(* Properties                                                               *)

Subs == 1..Len(calls)
CommittedSubs == {s \in Subs : calls[s].commitNo > 0}
FailedSubs == {s \in Subs : calls[s].outcome = "err"}

\* the rows committed since the initial state
NewOrderIds == {orders[i].orderId : i \in (c0 + 1)..Len(orders)}

\* C1: relational submitOrder: when all N >= 1 submissions of a run have
\* committed and returned, from counter value c, the order IDs assigned (the
\* ones returned and the ones stored) are exactly c+1 .. c+N, no duplicates and
\* no gaps, and the counter is c+N.
C1_GaplessIds ==
    (backend = "mariadb" /\ Len(calls) >= 1 /\ \A s \in Subs : calls[s].outcome = "ok")
    => LET N == Len(calls)
       IN /\ {ParseInt(calls[s].ret.orderId) : s \in Subs} = (c0 + 1)..(c0 + N)
          /\ \A s, t \in Subs : s # t => calls[s].ret.orderId # calls[t].ret.orderId
          /\ {ParseInt(id) : id \in NewOrderIds} = (c0 + 1)..(c0 + N)
          /\ Len(orders) = c0 + N
          /\ counter = c0 + N

\* two overlapping submissions both committed, the later caller first
C1_Witness ==
    /\ backend = "mariadb"
    /\ Len(calls) = 2
    /\ \A s \in Subs : calls[s].outcome = "ok"
    /\ calls[2].commitNo = 1
    /\ calls[1].commitNo = 2

\* C2: relational submitOrder: the ROLLBACK of a submission that failed leaves
\* the counter, the orders and the line items as they were; if the submission
\* had locked the counter row, the counter is still the value it read and no
\* order row or line-item row carries its ID; and the ID of a failed submission
\* is never skipped: once the counter passes it, a committed submission has it.
C2_RollbackStep ==
    \A p \in Procs :
        (pc[p] = "rollback" /\ pc'[p] = "returnErr")
        => /\ counter' = counter /\ orders' = orders /\ transactions' = transactions
           /\ local[p].current >= 0
              => /\ counter' = local[p].current
                 /\ \A i \in 1..Len(orders') : orders'[i].orderId # local[p].newOrderId
                 /\ \A i \in 1..Len(transactions') :
                        transactions'[i].orderId # local[p].newOrderId

C2_FailedIdReused ==
    backend = "mariadb" =>
        /\ Len(orders) = c0 + Cardinality(CommittedSubs)
        /\ \A f \in FailedSubs :
              calls[f].read >= 0
              => /\ counter >= calls[f].read
                 /\ counter > calls[f].read
                    => \E s \in CommittedSubs : /\ calls[s].read = calls[f].read
                                                /\ calls[s].newOrderId = calls[f].newOrderId

C2_Atomicity == [][C2_RollbackStep]_vars /\ []C2_FailedIdReused

\* a submission failed after reading the counter and the next one committed
\* with the ID it would have had
C2_Witness ==
    /\ backend = "mariadb"
    /\ \E f \in FailedSubs : \E s \in CommittedSubs :
          /\ calls[f].read >= 0
          /\ s > f
          /\ calls[s].read = calls[f].read
          /\ calls[s].outcome = "ok"

\* C4: relational counter: in every state the counter is the number of
\* committed orders and the numeric value of the largest stored order ID; no
\* step decrements it, and a step changes it only by adding 1 together with
\* exactly one new order row.
MaxOrderNumber ==
    IF orders = <<>> THEN 0
    ELSE CHOOSE m \in {ParseInt(orders[i].orderId) : i \in 1..Len(orders)} :
            \A i \in 1..Len(orders) : ParseInt(orders[i].orderId) <= m

C4_CounterState ==
    backend = "mariadb" =>
        /\ counter = Len(orders)
        /\ counter = c0 + Cardinality(CommittedSubs)
        /\ counter = MaxOrderNumber

C4_CounterStep ==
    /\ counter' >= counter
    /\ counter' \in {counter, counter + 1}
    /\ (counter' = counter + 1) <=> (Len(orders') = Len(orders) + 1)
    /\ Len(orders') >= Len(orders)

C4_CounterInvariant == []C4_CounterState /\ [][C4_CounterStep]_vars

\* one submission failed, another committed
C4_Witness ==
    /\ backend = "mariadb"
    /\ \E f \in FailedSubs : calls[f].read >= 0
    /\ CommittedSubs # {}
    /\ counter = 1

\* C5 as stated: no two submissions ever read the same counter value, and a
\* submission that commits earlier has the smaller numeric order ID.
C5_NoTwoReadsEqual ==
    backend = "mariadb" =>
        /\ \A s, t \in Subs :
              (s # t /\ calls[s].read >= 0 /\ calls[t].read >= 0)
              => calls[s].read # calls[t].read
        /\ \A s, t \in CommittedSubs :
              calls[s].commitNo < calls[t].commitNo
              => ParseInt(calls[s].newOrderId) < ParseInt(calls[t].newOrderId)

\* C5 amended: no two submissions that both commit read the same counter
\* value, no two open transactions hold a counter value at the same time, and
\* a submission that commits earlier has the smaller numeric order ID.
HoldsCounter(p) == pc[p] \in {"update", "insertOrder", "insertItems", "commit"}

C5_Linearized ==
    backend = "mariadb" =>
        /\ \A s, t \in CommittedSubs : s # t => calls[s].read # calls[t].read
        /\ \A p, q \in Procs : (p # q /\ HoldsCounter(p)) => ~HoldsCounter(q)
        /\ \A s, t \in CommittedSubs :
              calls[s].commitNo < calls[t].commitNo
              => ParseInt(calls[s].newOrderId) < ParseInt(calls[t].newOrderId)

\* the later caller committed first and so has the smaller ID
C5_Witness ==
    /\ backend = "mariadb"
    /\ Len(calls) = 2
    /\ calls[2].commitNo = 1
    /\ calls[1].commitNo = 2
    /\ ParseInt(calls[2].newOrderId) < ParseInt(calls[1].newOrderId)
    /\ \E p \in Procs : pc[p] = "returnOk"

\* the line items a submission asked for, as getOrders reports line items
SubmittedItems(s) ==
    LET items == calls[s].orderData.items
    IN [i \in 1..Len(items) |->
          [name |-> items[i].name, qty |-> items[i].qty,
           total |-> items[i].qty * items[i].price]]

\* C3: document submitOrder keeps the atomicity contract: an order header is
\* never stored without all of its line items, and the counter is not advanced
\* by a submission that fails.
FsCount == IF fsCounter >= 0 THEN fsCounter ELSE 0

C3_FsAtomicity ==
    backend = "firestore" =>
        /\ \A i \in 1..Len(fsOrders) :
              \E s \in Subs :
                 /\ calls[s].newOrderId = fsOrders[i].orderId
                 /\ Has(calls[s].orderData, "items")
                 /\ Len(SelectSeq(fsTransactions,
                                  LAMBDA t : t.orderId = fsOrders[i].orderId))
                      = Len(calls[s].orderData.items)
        /\ FsCount <= Cardinality(Subs \ FailedSubs)

\* C6: the order a successful submit returns carries the assigned orderId (the
\* one persisted), the derived status, the total amount and the items; the
\* order of two items paid in cash against counter 41 comes back with orderId
\* "0042" and status "paid", and the counter is then 42.
C6_ReturnsFinalizedOrder ==
    \A s \in Subs :
        calls[s].outcome = "ok"
        => LET ret == calls[s].ret
               od  == calls[s].orderData
           IN /\ ret.orderId = calls[s].newOrderId
              /\ ret.totalAmount = od.totalAmount
              /\ ret.items = od.items
              /\ Has(ret, "status")
              /\ ret.status = (IF Has(od, "paymentType") /\ od.paymentType = "Venmo"
                               THEN "pending" ELSE "paid")
              /\ (od = CashOrder /\ calls[s].read = 41)
                 => /\ ret.orderId = <<"0", "0", "4", "2">>
                    /\ ret.status = "paid"
                    /\ counter >= 42

\* C7: for every committed order, in both backends, the stored status is
\* "pending" exactly when the submitted payment type is the string "Venmo",
\* and "paid" otherwise, a missing payment type included.
DerivedStatusOk(status, od) ==
    /\ status \in {"pending", "paid"}
    /\ (status = "pending") <=> (Has(od, "paymentType") /\ od.paymentType = "Venmo")

C7_StatusDerivation ==
    /\ backend = "mariadb" =>
          \A s \in CommittedSubs :
             \E i \in 1..Len(orders) :
                /\ orders[i].orderId = calls[s].newOrderId
                /\ DerivedStatusOk(orders[i].status, calls[s].orderData)
    /\ backend = "firestore" =>
          \A i \in 1..Len(fsOrders) :
             \E s \in Subs :
                /\ calls[s].newOrderId = fsOrders[i].orderId
                /\ DerivedStatusOk(fsOrders[i].status, calls[s].orderData)

\* a Venmo order stored as pending next to an order without payment type
\* stored as paid
C7_Witness ==
    /\ backend = "mariadb"
    /\ \E i, j \in 1..Len(orders) :
          /\ orders[i].paymentType = <<"Venmo">> /\ orders[i].status = "pending"
          /\ orders[j].paymentType = <<>> /\ orders[j].status = "paid"

\* C8: the ID issued for counter value c reads back as c+1, is at least four
\* characters wide, has leading zeros only up to that width, and two different
\* counter values never get the same ID.
IdFormatOk(c, id) ==
    /\ Len(id) >= 4
    /\ \A i \in 1..Len(id) : id[i] \in {"0", "1", "2", "3", "4", "5", "6", "7", "8", "9"}
    /\ ParseInt(id) = c + 1
    /\ Len(id) > 4 => id[1] # "0"

C8_IdFormat ==
    fmt.a >= 0 =>
        /\ IdFormatOk(fmt.a, fmt.ida)
        /\ IdFormatOk(fmt.b, fmt.idb)
        /\ fmt.a # fmt.b => fmt.ida # fmt.idb

\* the first five-digit ID, next to the first ID of all
C8_Witness ==
    /\ fmt.a = 9999 /\ fmt.ida = <<"1", "0", "0", "0", "0">>
    /\ fmt.b = 0 /\ fmt.idb = <<"0", "0", "0", "1">>

\* C9: relational getOrders returns every committed order exactly once,
\* newest first (strictly descending numeric order ID), each with exactly the
\* line items submitted for it, in the order submitted, with line total
\* qty x price; an order without items appears with an empty list.
C9_ReadBack ==
    backend = "mariadb" =>
        LET r == getOrders
        IN /\ Len(r) = Len(orders)
           /\ \A i, j \in 1..Len(r) :
                 i < j => ParseInt(r[i].orderId) > ParseInt(r[j].orderId)
           /\ \A s \in CommittedSubs :
                 \E i \in 1..Len(r) :
                    /\ r[i].orderId = calls[s].newOrderId
                    /\ r[i].items = SubmittedItems(s)

\* C10: a validation of a token that was issued or last accepted at T succeeds
\* at every time up to and including T + TTL and sets its expiry to the time of
\* the validation + TTL; later than T + TTL it fails and removes the entry; a
\* token removed by a failed validation is never accepted again.
C10_State ==
    /\ \A t \in Tokens : (t \in DOMAIN adminTokens) <=> (lastUse[t] >= 0)
    /\ \A t \in DOMAIN adminTokens : adminTokens[t] = lastUse[t] + ADMIN_TOKEN_TTL
    /\ purged \cap DOMAIN adminTokens = {}

C10_ValidateStep ==
    \A t \in Tokens :
        (now' = now /\ lastCall'.op = "validate" /\ lastCall'.token = t)
        => /\ (lastUse[t] >= 0 /\ now <= lastUse[t] + ADMIN_TOKEN_TTL)
              => /\ lastCall'.result
                 /\ t \in DOMAIN adminTokens'
                 /\ adminTokens'[t] = now + ADMIN_TOKEN_TTL
           /\ (lastUse[t] >= 0 /\ now > lastUse[t] + ADMIN_TOKEN_TTL)
              => /\ ~lastCall'.result
                 /\ t \notin DOMAIN adminTokens'
           /\ t \in purged => ~lastCall'.result

C10_SlidingExpiry == []C10_State /\ [][C10_ValidateStep]_vars

\* a token issued at 0 and accepted at TTL is accepted again at 2 * TTL, after
\* another token was rejected and removed
C10_Witness ==
    /\ now = 2 * ADMIN_TOKEN_TTL
    /\ lastCall.op = "validate" /\ lastCall.result
    /\ adminTokens[lastCall.token] = 3 * ADMIN_TOKEN_TTL
    /\ purged # {}


\* C11: revokeAdminToken(token) removes the token's entry whatever its expiry,
\* leaves the entries of all other tokens as they were, changes nothing when
\* the token has no entry (revoking twice or revoking an unknown token) and
\* returns without an error; every validation of a revoked token fails.
C11_RevokeStep ==
    \A t \in Tokens :
        (now' = now /\ lastCall'.op = "revoke" /\ lastCall'.token = t)
        => /\ t \notin DOMAIN adminTokens'
           /\ \A u \in Tokens \ {t} :
                 /\ (u \in DOMAIN adminTokens') <=> (u \in DOMAIN adminTokens)
                 /\ u \in DOMAIN adminTokens => adminTokens'[u] = adminTokens[u]
           /\ t \notin DOMAIN adminTokens => adminTokens' = adminTokens
           /\ lastCall'.result \in BOOLEAN

C11_RevokedRejected ==
    \A t \in Tokens :
        (now' = now /\ lastCall'.op = "validate" /\ lastCall'.token = t /\ t \in revoked)
        => /\ ~lastCall'.result
           /\ t \notin DOMAIN adminTokens'

C11_Revocation ==
    /\ [](revoked \cap DOMAIN adminTokens = {})
    /\ [][C11_RevokeStep]_vars
    /\ [][C11_RevokedRejected]_vars

\* an issued token whose entry had expired was revoked and then rejected, while
\* the other token's entry is still in the store
C11_Witness ==
    /\ lastCall.op = "validate" /\ ~lastCall.result
    /\ lastCall.token \in (revoked \cap issued) \ purged
    /\ \E u \in DOMAIN adminTokens : u # lastCall.token /\ adminTokens[u] >= now

\* the record the Map holds for a client, and whether the client is locked
Rec(ip) == heap[loginAttempts[ip]]
Locked(ip) ==
    /\ ip \in DOMAIN loginAttempts
    /\ Rec(ip).lockedUntil # 0
    /\ now < Rec(ip).lockedUntil

\* the step in which handler p answers 401 / 200
FailureStep(p) == lpc[p] = "verify" /\ lpc'[p] = "idle" /\ lastLogin'.status = 401
SuccessStep(p) == lpc[p] = "verify" /\ lpc'[p] = "idle" /\ lastLogin'.status = 200

\* C12: with the requests handled one after the other, a failed verification
\* after the window has elapsed (or without a record) starts a new window with
\* count 1, one within the window adds 1 to the count; the client becomes
\* locked exactly when the count reaches MAX_ATTEMPTS, until the time of that
\* failure + LOCK_TIME_MS; with fewer failures in the window it is not locked.
C12_FailureStep ==
    \A p \in LoginProcs :
        FailureStep(p) =>
            LET ip == lreq[p].ip
                t == lreq[p].now
                had == ip \in DOMAIN loginAttempts
                new == heap'[loginAttempts'[ip]]
            IN /\ ip \in DOMAIN loginAttempts'
               /\ (~had \/ t - Rec(ip).firstAt > ATTEMPT_WINDOW_MS)
                     => new.count = 1 /\ new.firstAt = t
               /\ (had /\ t - Rec(ip).firstAt <= ATTEMPT_WINDOW_MS)
                     => new.count = Rec(ip).count + 1 /\ new.firstAt = Rec(ip).firstAt
               /\ new.count = MAX_ATTEMPTS => new.lockedUntil = t + LOCK_TIME_MS
               /\ new.count < MAX_ATTEMPTS
                     => new.lockedUntil = (IF had THEN Rec(ip).lockedUntil ELSE 0)

C12_State ==
    \A ip \in DOMAIN loginAttempts :
        /\ Rec(ip).count \in 1..MAX_ATTEMPTS
        /\ Locked(ip) => Rec(ip).count = MAX_ATTEMPTS
        /\ Rec(ip).count = MAX_ATTEMPTS
              => /\ Rec(ip).lockedUntil >= Rec(ip).firstAt + LOCK_TIME_MS
                 /\ Rec(ip).lockedUntil <= Rec(ip).firstAt + ATTEMPT_WINDOW_MS + LOCK_TIME_MS

C12_Threshold == []C12_State /\ [][C12_FailureStep]_vars

\* the fifth failure came at the last instant of a window that began at minute
\* 5, and locked the client until minute 30
C12_Witness ==
    /\ lastLogin = [ip |-> "10.0.0.1", status |-> 401]
    /\ "10.0.0.1" \in DOMAIN loginAttempts
    /\ Rec("10.0.0.1") = [count |-> MAX_ATTEMPTS, firstAt |-> 1000 * 60 * 5,
                          lockedUntil |-> 1000 * 60 * 30]
    /\ now = 1000 * 60 * 15
    /\ Locked("10.0.0.1")

\* C13: while a client is locked, every step leaves its record as it is, no
\* request of it reaches the Credential Guard, every response to it is 429 and
\* no token is issued to it; so the lockout ends at the lockedUntil it began
\* with.
C13_LockedStep ==
    \A ip \in Clients :
        Locked(ip) =>
            /\ ip \in DOMAIN loginAttempts' /\ heap'[loginAttempts'[ip]] = Rec(ip)
            /\ \A p \in LoginProcs :
                  (lpc[p] = "idle" /\ lpc'[p] = "verify") => lreq'[p].ip # ip
            /\ (lastLogin' # lastLogin /\ lastLogin'.ip = ip) => lastLogin'.status = 429
            /\ issued' # issued => lastLogin'.ip # ip

C13_Lockout == [][C13_LockedStep]_vars

\* C14: a successful verification removes the client's record, issues exactly
\* one new token and leaves the records of the other clients as they are; the
\* next failed verification of that client is recorded with count 1.
C14_SuccessStep ==
    \A p \in LoginProcs :
        SuccessStep(p) =>
            LET ip == lreq[p].ip
            IN /\ ip \notin DOMAIN loginAttempts'
               /\ \A other \in Clients \ {ip} :
                     /\ (other \in DOMAIN loginAttempts') <=> (other \in DOMAIN loginAttempts)
                     /\ other \in DOMAIN loginAttempts
                           => heap'[loginAttempts'[other]] = Rec(other)
               /\ Cardinality(issued' \ issued) = 1
               /\ DOMAIN adminTokens' \ DOMAIN adminTokens = issued' \ issued

C14_CountedFromOne ==
    \A p \in LoginProcs :
        (FailureStep(p) /\ lreq[p].ip \in cleared)
            => heap'[loginAttempts'[lreq[p].ip]].count = 1

C14_SuccessClears == [][C14_SuccessStep]_vars /\ [][C14_CountedFromOne]_vars

\* C15: every failed verification adds one to the count the Map holds for the
\* client (or starts a window with count 1), whatever other requests of the
\* client are in flight; the failures recorded in the window and the requests
\* of the client that are at the Credential Guard are never more than
\* MAX_ATTEMPTS together.
C15_NoLostAttempt ==
    \A p \in LoginProcs :
        FailureStep(p) =>
            LET ip == lreq[p].ip
                new == heap'[loginAttempts'[ip]]
            IN IF ip \in DOMAIN loginAttempts
                  /\ lreq[p].now - Rec(ip).firstAt <= ATTEMPT_WINDOW_MS
               THEN new.count = Rec(ip).count + 1
               ELSE new.count = 1

C15_GuardBound ==
    \A ip \in Clients :
        LET recorded == IF ip \in DOMAIN loginAttempts
                           /\ now - Rec(ip).firstAt <= ATTEMPT_WINDOW_MS
                        THEN Rec(ip).count ELSE 0
        IN recorded + Cardinality({p \in Verifying : lreq[p].ip = ip}) <= MAX_ATTEMPTS

C15_Atomic == []C15_GuardBound /\ [][C15_NoLostAttempt]_vars

\* C20: validateAdminPassword returns false when the stored hash or salt is
\* absent and when a query, the derivation or the comparison raises an error
\* (table missing, stored hash of another length, password not a string); it
\* never throws; it returns true only when a credential is stored and the hash
\* derived from the password and the stored salt equals the stored hash.
C20_FailsClosed ==
    gres.result # "none" =>
        LET m == gres.meta
            pw == gres.password
            stored == m.exists /\ m.admin_hash # <<>> /\ m.admin_salt # <<>>
            matches == /\ stored
                       /\ pw.type = "string"
                       /\ m.admin_hash[1] = pbkdf2Sync(pw.v, m.admin_salt[1])
        IN /\ gres.result \in {"true", "false"}
           /\ ~stored => gres.result = "false"
           /\ (gres.fault \/ pw.type # "string") => gres.result = "false"
           /\ (stored /\ m.admin_hash[1].bytes # 64) => gres.result = "false"
           /\ gres.result = "true" <=> (~gres.fault /\ matches)

\* the right password against a stored hash that was cut to 32 bytes
C20_Witness ==
    /\ gres.result = "false"
    /\ ~gres.fault
    /\ gres.password = Str(AdminPassword)
    /\ gres.meta.exists
    /\ gres.meta.admin_salt = <<"pepper">>
    /\ gres.meta.admin_hash = <<[bytes |-> 32, of |-> <<AdminPassword, "pepper">>]>>

\* the rules of the catalog, stated on their own: rule 1 the tab, 2..4 the
\* texts, 5 the price (null and a blank text count as the price 0)
HasText(v) == v.type = "string" /\ \E i \in 1..Len(v.s) : v.s[i] # " "
IsPrice(v) ==
    \/ v.type = "number" /\ v.n >= 0
    \/ v.type = "null"
    \/ v.type = "string" /\ \A i \in 1..Len(v.s) :
                               v.s[i] \in {" ", "0", "1", "2", "3", "4", "5", "6", "7", "8", "9"}
RuleOk(item, i) ==
    CASE i = 1 -> item.tab \in {Raffles, Concessions}
      [] i = 2 -> HasText(item.category)
      [] i = 3 -> HasText(item.name)
      [] i = 4 -> HasText(item.dataName)
      [] i = 5 -> IsPrice(item.price)
RuleMsgs == <<TabMsg, CategoryMsg, NameMsg, DataNameMsg, PriceMsg>>
Violations(payload) ==
    IF payload = <<>>
    THEN <<MissingPayloadMsg>>
    ELSE LET broken == SelectSeq(<<1, 2, 3, 4, 5>>, LAMBDA i : ~RuleOk(payload[1], i))
         IN [k \in 1..Len(broken) |-> RuleMsgs[broken[k]]]
BreaksRule(payload) == payload = <<>> \/ \E i \in 1..5 : ~RuleOk(payload[1], i)

\* a token that a login issued, that was not revoked and has not expired
ValidToken(token) ==
    /\ token # 0
    /\ token \in issued
    /\ token \notin revoked \cup purged
    /\ lastUse[token] >= 0
    /\ now <= lastUse[token] + ADMIN_TOKEN_TTL

CredentialStored == metaText.exists /\ metaText.admin_hash # <<>>

\* C16: with admin checks on and a credential stored, a create, update or
\* delete goes on to its statement only for a request that presents a valid
\* token; any other request is answered 401 and leaves the catalog as it was,
\* whether or not the lookup of isAdminConfigured fails; the catalog changes in
\* no step but the statement of an admitted request.
C16_GateStep ==
    \A call \in AdminCalls, token \in PresentedTokens, fault \in BOOLEAN :
        (AdminRequest(call, token, fault) /\ ~allowUnauth /\ CredentialStored)
        => /\ areq'.pc = "write" => ValidToken(token)
           /\ ~ValidToken(token) => areq'.status = 401 /\ itemRows' = itemRows

C16_OnlyStatements ==
    areq.pc # "write" => itemRows' = itemRows /\ itemsAutoInc' = itemsAutoInc

C16_AdminGate == [][C16_GateStep]_vars /\ [][C16_OnlyStatements]_vars

\* C17: validateItemFields returns one violation for each rule the item
\* breaks, in the order of the rules, and the empty list iff no rule is broken;
\* without a payload it returns the one violation that the payload is missing.
C17_AllViolations ==
    vres.called =>
        /\ vres.errs = Violations(vres.payload)
        /\ vres.errs = <<>> <=> ~BreaksRule(vres.payload)

\* tab "other", an empty name and a negative price
C17_Witness ==
    /\ vres.called
    /\ vres.payload = <<Item(Other, Text(<<"P", "i", "e", "s">>), Text(<<>>),
                             Text(<<"p", "i", "e">>), Number(0 - 1))>>
    /\ vres.errs = <<TabMsg, NameMsg, PriceMsg>>

\* C18: a create or update request whose payload breaks a rule is answered 400
\* with the list of its violations (401 when requireAdmin turns it away) and
\* never goes on to a statement; the catalog is the same before and after.
InvalidCalls == {call \in AdminCalls : call.op \in {"create", "update"} /\ BreaksRule(call.body)}

C18_RejectStep ==
    \A call \in InvalidCalls, token \in PresentedTokens, fault \in BOOLEAN :
        AdminRequest(call, token, fault)
        => /\ areq'.pc = "idle"
           /\ areq'.status = (IF ~allowUnauth /\ isAdminConfigured(metaText, fault)
                                 /\ ~ValidToken(token)
                              THEN 401 ELSE 400)
           /\ areq'.status = 400 => areq'.details = Violations(call.body)
           /\ itemRows' = itemRows /\ itemsAutoInc' = itemsAutoInc

C18_State ==
    (areq.pc = "write" /\ areq.op \in {"create", "update"}) => ~BreaksRule(areq.body)

C18_InvalidRejected == []C18_State /\ [][C18_RejectStep]_vars

\* the admin, logged in, sent the item without tab, with an empty name and a
\* negative price
C18_Witness ==
    /\ ~allowUnauth /\ CredentialStored
    /\ lastCall = [op |-> "validate", token |-> 1, result |-> TRUE]
    /\ areq.status = 400
    /\ areq.details = <<TabMsg, NameMsg, PriceMsg>>
    /\ itemRows = seedItems

\* C19: an update or delete of an id that no row has is answered with a
\* not-found error and leaves the catalog as it was.
C19_NotFoundStep ==
    (areq.pc = "write" /\ areq.op \in {"update", "delete"} /\ areq.id \notin DOMAIN itemRows
        /\ areq'.pc = "idle" /\ areq'.status # 500)
    => areq'.status = 404 /\ itemRows' = itemRows

C19_NotFound == [][C19_NotFoundStep]_vars

\* C21: every committed row of orders has at least one row of transactions
\* with its orderId, and no call whose item list is empty or missing commits.
C21_NonEmptyOrders ==
    /\ \A i \in 1..Len(orders) : ItemRowsOf(orders[i].orderId) # <<>>
    /\ \A s \in 1..Len(calls) :
          calls[s].commitNo > 0 =>
              Has(calls[s].orderData, "items") /\ calls[s].orderData.items # <<>>

\* C22: a request that holds a connection gives it back, and only after its
\* COMMIT or ROLLBACK, with its writes gone from the transaction and the lock
\* on the counter row released; the lock is held only by a request between
\* its SELECT ... FOR UPDATE and its COMMIT or ROLLBACK; never more
\* connections are in use than the pool has; every request, whether it waits
\* for the pool, waits for the lock or is at a later statement, comes to its
\* end.
C22_ReleaseStep ==
    \A p \in Procs :
        (pc[p] \in ConnPcs /\ pc'[p] \notin ConnPcs)
        => /\ pc[p] \in {"returnOk", "returnErr"}
           /\ pc'[p] = "idle"
           /\ lockHolder # p /\ tx[p] = NoTx

C22_LockHeld ==
    \A p \in Procs :
        lockHolder = p => pc[p] \in {"update", "insertOrder", "insertItems", "commit", "rollback"}

C22_Returned == \A p \in Procs : pc[p] # "idle" ~> pc[p] = "idle"

C23_StaleRecord ==
    \A ip \in DOMAIN loginAttempts :
        (Rec(ip).count >= MAX_ATTEMPTS /\ Rec(ip).lockedUntil # 0 /\ now >= Rec(ip).lockedUntil)
            => now - Rec(ip).firstAt > ATTEMPT_WINDOW_MS

C23_RearmStep ==
    \A p \in LoginProcs :
        FailureStep(p) =>
            LET ip == lreq[p].ip
                t == lreq[p].now
                new == heap'[loginAttempts'[ip]]
                locked == new.lockedUntil # 0 /\ now' < new.lockedUntil
            IN /\ (/\ ip \in DOMAIN loginAttempts
                   /\ Rec(ip).count >= MAX_ATTEMPTS
                   /\ Rec(ip).lockedUntil # 0 /\ t >= Rec(ip).lockedUntil)
                  => new.count = 1 /\ new.firstAt = t /\ ~locked
               /\ (locked /\ ~Locked(ip))
                  => ip \in DOMAIN loginAttempts /\ Rec(ip).count = MAX_ATTEMPTS - 1

====
